---- MODULE Spec2Model ----
(***************************************************************************)
(* switchbot_rs: decoding of SwitchBot Bluetooth LE advertisement data.    *)
(*                                                                         *)
(* The crate exports two pure functions, decode_model and decode_data      *)
(* (src/src/protocol.rs), over the types of src/src/model.rs.  The model   *)
(* is a caller that holds one advertisement (service_data and an optional  *)
(* manufacturer_data) and calls one of the two functions on it.            *)
(***************************************************************************)
EXTENDS Integers, Sequences, FiniteSets, TLC

VARIABLES
    service_data,       \* &[u8]: the service data handed to the crate
    manufacturer_data,  \* Option<&[u8]>: the manufacturer data handed to it
    pc,                 \* "input" | "classified" | "decoded"
    model,              \* Option<SwitchBotDeviceModel> returned by the call
    data,               \* Option<SwitchBotData> returned by decode_data
    panicked,           \* the call did not return: it panicked
    printed             \* what the call wrote with println!, if anything

vars == <<service_data, manufacturer_data, pc, model, data, panicked, printed>>

(***************************************************************************)
(* Bounds of the model.                                                    *)
(***************************************************************************)
MaxServiceLen == 7
MaxManufacturerLen == 13

Byte == 0..255

(***************************************************************************)
(* Option<T>.                                                              *)
(***************************************************************************)
None == [some |-> FALSE]
Some(v) == [some |-> TRUE, val |-> v]

(***************************************************************************)
(* Machine arithmetic.                                                     *)
(***************************************************************************)
\* a & b, bit by bit; the operands are non-negative (a u8, or a u8 widened)
RECURSIVE BitAnd(_, _)
BitAnd(a, b) ==
    IF a = 0 \/ b = 0 THEN 0
    ELSE (IF a % 2 = 1 /\ b % 2 = 1 THEN 1 ELSE 0)
         + 2 * BitAnd(a \div 2, b \div 2)

InI16(x) == x >= -32768 /\ x <= 32767
InI32(x) == x >= -2147483647 - 1 /\ x <= 2147483647

\* the i16 that keeps the low 16 bits of x
WrapI16(x) == ((x + 32768) % 65536) - 32768

\* x << n on i16: bits shifted out of the 16 are lost, without any check
ShlI16(x, n) == WrapI16(x * (2 ^ n))

\* Rust's integer division truncates toward zero (b > 0)
TruncDiv(a, b) == IF a >= 0 THEN a \div b ELSE -((-a) \div b)

\* buf[i] of a slice, zero-based; -1 stands for the bounds check failing
Index(buf, i) == IF i >= 0 /\ i < Len(buf) THEN buf[i + 1] ELSE -1

\* every slice read of a branch was inside its buffer
InBounds(reads) == \A r \in reads : r >= 0

(***************************************************************************)
(* src/src/model.rs                                                        *)
(***************************************************************************)
\* enum SwitchBotDeviceModel: each variant with its discriminant
SwitchBotDeviceModel ==
    [ Button        |-> 66,    \* 0x42
      FanAdd        |-> 70,    \* 0x46
      Bot           |-> 72,    \* 0x48
      HubAdd        |-> 76,    \* 0x4C
      HubMiniAdd    |-> 77,    \* 0x4D
      HubPlusAdd    |-> 80,    \* 0x50
      Meter         |-> 84,    \* 0x54
      Curtain       |-> 99,    \* 0x63
      ContactSensor |-> 100,   \* 0x64
      Humidifier    |-> 101,   \* 0x65
      Fan           |-> 102,   \* 0x66
      PlugMiniUS    |-> 103,   \* 0x67
      MeterPlus     |-> 105,   \* 0x69
      PlugMiniJP    |-> 106,   \* 0x6A
      Hub           |-> 108,   \* 0x6C
      HubMini       |-> 109,   \* 0x6D
      SmartLock     |-> 111,   \* 0x6F
      HubPlus       |-> 112,   \* 0x70
      LEDStripLight |-> 114,   \* 0x72
      MotionSensor  |-> 115,   \* 0x73
      MeterAdd      |-> 116,   \* 0x74
      ColorBulb     |-> 117 ]  \* 0x75

\* the variants' names, and a variant's value as an integer (`model as u8`)
Variants == DOMAIN SwitchBotDeviceModel
Discriminant(m) == SwitchBotDeviceModel[m]

\* enum SwitchBotData
BotData(battery, state) ==
    [variant |-> "Bot", battery |-> battery, state |-> state]
MeterData(battery, temperature, humidity) ==
    [variant |-> "Meter", battery |-> battery, temperature |-> temperature,
     humidity |-> humidity]
PlugData(wifi_rssi, state, watts, overload) ==
    [variant |-> "Plug", wifi_rssi |-> wifi_rssi, state |-> state,
     watts |-> watts, overload |-> overload]
HumidifierData(state, humidity, auto_mode) ==
    [variant |-> "Humidifier", state |-> state, humidity |-> humidity,
     auto_mode |-> auto_mode]

(***************************************************************************)
(* src/src/protocol.rs: decode_model                                       *)
(***************************************************************************)
\* MaskedCode with the mask forgotten
MaskedCode_unmasked(b) == b

\* `data & 0b01111111`: the byte with its high bit cleared
MaskedCode(b) == BitAnd(b, 127)

\* the arms of the match
MatchArms(code) ==
    CASE code = 66  -> Some("Button")
      [] code = 70  -> Some("FanAdd")
      [] code = 72  -> Some("Bot")
      [] code = 76  -> Some("HubAdd")
      [] code = 77  -> Some("HubMiniAdd")
      [] code = 80  -> Some("HubPlusAdd")
      [] code = 84  -> Some("Meter")
      [] code = 99  -> Some("Curtain")
      [] code = 100 -> Some("ContactSensor")
      [] code = 101 -> Some("Humidifier")
      [] code = 102 -> Some("Fan")
      [] code = 103 -> Some("PlugMiniUS")
      [] code = 105 -> Some("MeterPlus")
      [] code = 106 -> Some("PlugMiniJP")
      [] code = 108 -> Some("Hub")
      [] code = 109 -> Some("HubMini")
      [] code = 111 -> Some("SmartLock")
      [] code = 112 -> Some("HubPlus")
      [] code = 114 -> Some("LEDStripLight")
      [] code = 115 -> Some("MotionSensor")
      [] code = 116 -> Some("MeterAdd")
      [] code = 117 -> Some("ColorBulb")
      [] OTHER      -> None

\* decode_model with the arm of the last variant, ColorBulb, left out
decode_model_missing_arm(b) ==
    IF MaskedCode(b) = 117 THEN None ELSE MatchArms(MaskedCode(b))

decode_model(b) == MatchArms(MaskedCode(b))

(***************************************************************************)
(* src/src/protocol.rs: decode_data                                        *)
(*                                                                         *)
(* A call's outcome: the pair it returns, whether it panicked instead      *)
(* (a slice index out of bounds, an arithmetic overflow), and the length   *)
(* its println! reported.  An overflow panics in a build with overflow     *)
(* checks and wraps in one without; the model records it as a panic in     *)
(* both, so that a call that does not panic has not overflowed either.     *)
(***************************************************************************)
Return(m, d) == [model |-> m, data |-> d, panic |-> FALSE, printed |-> None]
Reject == Return(None, None)
RejectPrinting(what, len) ==
    [model |-> None, data |-> None, panic |-> FALSE,
     printed |-> Some(<<what, len>>)]
Panic == [model |-> None, data |-> None, panic |-> TRUE, printed |-> None]

\* the required lengths
MinServiceLen == 3
BotServiceLen == 3
MeterServiceLen == 6
HumidifierServiceLen == 5
PlugManufacturerLen == 12

\* decode_bot reading the state from bit 7 instead of bit 6
decode_bot_high_bit(m, sd) ==
    IF Len(sd) /= BotServiceLen THEN RejectPrinting("Bot", Len(sd))
    ELSE
    LET b1 == Index(sd, 1)
        b2 == Index(sd, 2)
    IN  IF ~InBounds({b1, b2}) THEN Panic
        ELSE
        LET state == (BitAnd(b1, 128) = 128)
        IN  Return(Some(m), Some(BotData(BitAnd(b2, 127), state)))

\* SwitchBotDeviceModel::Bot => { ... }
decode_bot(m, sd) ==
    IF Len(sd) /= BotServiceLen THEN RejectPrinting("Bot", Len(sd))
    ELSE
    LET b1 == Index(sd, 1)
        b2 == Index(sd, 2)
    IN  IF ~InBounds({b1, b2}) THEN Panic
        ELSE
        LET state == (BitAnd(b1, 64) = 64)
        IN  Return(Some(m), Some(BotData(BitAnd(b2, 127), state)))

\* decode_meter dividing the whole of byte 3, not its low nibble
decode_meter_whole_byte(m, sd) ==
    IF Len(sd) /= MeterServiceLen THEN RejectPrinting("Meter", Len(sd))
    ELSE
    LET b2 == Index(sd, 2)
        b3 == Index(sd, 3)
        b4 == Index(sd, 4)
        b5 == Index(sd, 5)
    IN  IF ~InBounds({b2, b3, b4, b5}) THEN Panic
        ELSE
        LET temp_sign == IF BitAnd(b4, 128) = 128 THEN 1 ELSE -1
            magnitude == BitAnd(b4, 127) + TruncDiv(b3, 10)
            temp_c    == temp_sign * magnitude
        IN  IF ~InI32(magnitude) \/ ~InI32(temp_c) THEN Panic
            ELSE Return(Some(m),
                        Some(MeterData(BitAnd(b2, 127), temp_c,
                                       BitAnd(b5, 127))))

\* SwitchBotDeviceModel::Meter | SwitchBotDeviceModel::MeterPlus => { ... }
decode_meter(m, sd) ==
    IF Len(sd) /= MeterServiceLen THEN RejectPrinting("Meter", Len(sd))
    ELSE
    LET b2 == Index(sd, 2)
        b3 == Index(sd, 3)
        b4 == Index(sd, 4)
        b5 == Index(sd, 5)
    IN  IF ~InBounds({b2, b3, b4, b5}) THEN Panic
        ELSE
        LET temp_sign == IF BitAnd(b4, 128) = 128 THEN 1 ELSE -1
            magnitude == BitAnd(b4, 127) + TruncDiv(BitAnd(b3, 15), 10)
            temp_c    == temp_sign * magnitude
        IN  IF ~InI32(magnitude) \/ ~InI32(temp_c) THEN Panic
            ELSE Return(Some(m),
                        Some(MeterData(BitAnd(b2, 127), temp_c,
                                       BitAnd(b5, 127))))

\* decode_humidifier checking the length of the Bot family
decode_humidifier_bot_length(m, sd) ==
    IF Len(sd) /= BotServiceLen
    THEN RejectPrinting("Humidifier", Len(sd))
    ELSE
    LET b1 == Index(sd, 1)
        b4 == Index(sd, 4)
    IN  IF ~InBounds({b1, b4}) THEN Panic
        ELSE
        LET state            == (BitAnd(b1, 128) = 128)
            auto_mode        == (BitAnd(b4, 128) = 128)
            humidity_setting == BitAnd(b4, 127)
        IN  Return(Some(m),
                   Some(HumidifierData(state, humidity_setting, auto_mode)))

\* SwitchBotDeviceModel::Humidifier => { ... }
decode_humidifier(m, sd) ==
    IF Len(sd) /= HumidifierServiceLen
    THEN RejectPrinting("Humidifier", Len(sd))
    ELSE
    LET b1 == Index(sd, 1)
        b4 == Index(sd, 4)
    IN  IF ~InBounds({b1, b4}) THEN Panic
        ELSE
        LET state            == (BitAnd(b1, 128) = 128)
            auto_mode        == (BitAnd(b4, 128) = 128)
            humidity_setting == BitAnd(b4, 127)
        IN  Return(Some(m),
                   Some(HumidifierData(state, humidity_setting, auto_mode)))

\* decode_plug rejecting only a manufacturer data that is too short
decode_plug_min_length(m, md) ==
    IF ~md.some THEN Reject
    ELSE IF Len(md.val) < PlugManufacturerLen
    THEN RejectPrinting("PlugMini", Len(md.val))
    ELSE
    LET m7  == Index(md.val, 7)
        m9  == Index(md.val, 9)
        m10 == Index(md.val, 10)
        m11 == Index(md.val, 11)
    IN  IF ~InBounds({m7, m9, m10, m11}) THEN Panic
        ELSE
        LET state    == (m7 = 128)
            overload == (BitAnd(m10, 128) = 128)
            shifted  == ShlI16(BitAnd(m10, 127), 8)
            sum      == shifted + m11
            watts    == TruncDiv(WrapI16(sum), 10)
            rssi     == -m9
        IN  IF ~InI16(sum) \/ ~InI16(rssi) THEN Panic
            ELSE Return(Some(m), Some(PlugData(rssi, state, watts, overload)))

\* decode_plug shifting byte 10 with its overload bit still set
decode_plug_unmasked_watts(m, md) ==
    IF ~md.some THEN Reject
    ELSE IF Len(md.val) /= PlugManufacturerLen
    THEN RejectPrinting("PlugMini", Len(md.val))
    ELSE
    LET m7  == Index(md.val, 7)
        m9  == Index(md.val, 9)
        m10 == Index(md.val, 10)
        m11 == Index(md.val, 11)
    IN  IF ~InBounds({m7, m9, m10, m11}) THEN Panic
        ELSE
        LET state    == (m7 = 128)
            overload == (BitAnd(m10, 128) = 128)
            shifted  == ShlI16(m10, 8)
            sum      == shifted + m11
            watts    == TruncDiv(WrapI16(sum), 10)
            rssi     == -m9
        IN  IF ~InI16(sum) \/ ~InI16(rssi) THEN Panic
            ELSE Return(Some(m), Some(PlugData(rssi, state, watts, overload)))

\* SwitchBotDeviceModel::PlugMiniUS | SwitchBotDeviceModel::PlugMiniJP => { ... }
decode_plug(m, md) ==
    IF ~md.some THEN Reject
    ELSE IF Len(md.val) /= PlugManufacturerLen
    THEN RejectPrinting("PlugMini", Len(md.val))
    ELSE
    LET m7  == Index(md.val, 7)
        m9  == Index(md.val, 9)
        m10 == Index(md.val, 10)
        m11 == Index(md.val, 11)
    IN  IF ~InBounds({m7, m9, m10, m11}) THEN Panic
        ELSE
        LET state    == (m7 = 128)
            overload == (BitAnd(m10, 128) = 128)
            shifted  == ShlI16(BitAnd(m10, 127), 8)
            sum      == shifted + m11
            watts    == TruncDiv(WrapI16(sum), 10)
            rssi     == -m9
        IN  IF ~InI16(sum) \/ ~InI16(rssi) THEN Panic
            ELSE Return(Some(m), Some(PlugData(rssi, state, watts, overload)))

\* decode_data returning the model alone for a model it does not decode
decode_data_keeps_model(sd, md) ==
    IF Len(sd) < MinServiceLen THEN Reject
    ELSE
    LET b0 == Index(sd, 0) IN
    IF ~InBounds({b0}) THEN Panic
    ELSE
    LET m == decode_model(b0) IN
    IF ~m.some THEN Reject
    ELSE CASE m.val = "Bot" -> decode_bot(m.val, sd)
           [] m.val \in {"Meter", "MeterPlus"} -> decode_meter(m.val, sd)
           [] m.val = "Humidifier" -> decode_humidifier(m.val, sd)
           [] m.val \in {"PlugMiniUS", "PlugMiniJP"} -> decode_plug(m.val, md)
           [] OTHER -> Return(Some(m.val), None)

\* decode_data without its minimum-length gate
decode_data_no_length_gate(sd, md) ==
    LET b0 == Index(sd, 0) IN
    IF ~InBounds({b0}) THEN Panic
    ELSE
    LET m == decode_model(b0) IN
    IF ~m.some THEN Reject
    ELSE CASE m.val = "Bot" -> decode_bot(m.val, sd)
           [] m.val \in {"Meter", "MeterPlus"} -> decode_meter(m.val, sd)
           [] m.val = "Humidifier" -> decode_humidifier(m.val, sd)
           [] m.val \in {"PlugMiniUS", "PlugMiniJP"} -> decode_plug(m.val, md)
           [] OTHER -> Reject

decode_data(sd, md) ==
    IF Len(sd) < MinServiceLen THEN Reject
    ELSE
    LET b0 == Index(sd, 0) IN
    IF ~InBounds({b0}) THEN Panic
    ELSE
    LET m == decode_model(b0) IN
    IF ~m.some THEN Reject
    ELSE CASE m.val = "Bot" -> decode_bot(m.val, sd)
           [] m.val \in {"Meter", "MeterPlus"} -> decode_meter(m.val, sd)
           [] m.val = "Humidifier" -> decode_humidifier(m.val, sd)
           [] m.val \in {"PlugMiniUS", "PlugMiniJP"} -> decode_plug(m.val, md)
           [] OTHER -> Reject

(***************************************************************************)
(* The caller: it holds one advertisement, then calls decode_model on the  *)
(* leading byte of the service data, or decode_data on the advertisement.  *)
(***************************************************************************)
\* n times the byte b
RECURSIVE Fill(_, _)
Fill(n, b) == IF n = 0 THEN <<>> ELSE Append(Fill(n - 1, b), b)

\* the buffers of n bytes whose byte i (zero-based) is drawn from At[i]
RECURSIVE Buffers(_, _)
Buffers(n, At) ==
    IF n = 0 THEN {<<>>}
    ELSE {Append(s, b) : s \in Buffers(n - 1, At), b \in At[n - 1]}

\* the caller holds service data sd and manufacturer data md, before any call
Holding(sd, md) ==
    /\ service_data = sd
    /\ manufacturer_data = md
    /\ pc = "input"
    /\ model = None
    /\ data = None
    /\ panicked = FALSE
    /\ printed = None

\* the inputs of the tests of src/src/lib.rs
ZeroBufferTest == [sd |-> Fill(3, 0), md |-> Some(Fill(12, 0))]
BotOnTest == [sd |-> <<72, 64, 100>>, md |-> None]
BotOffTest == [sd |-> <<72, 0, 50>>, md |-> None]
MeterPlusTest == [sd |-> <<105, 0, 100, 0, 128, 42>>, md |-> None]
TestInputs == {ZeroBufferTest, BotOnTest, BotOffTest, MeterPlusTest}
InitTests == \E a \in TestInputs : Holding(a.sd, a.md)

\* no service data at all, and every leading byte with every length, the
\* other bytes all 0x00 or all 0xFF
NoneOrZeros == {None, Some(Fill(12, 0))}
InitLeadingByte ==
    \/ \E md \in NoneOrZeros : Holding(<<>>, md)
    \/ \E b0 \in Byte, n \in 1..MaxServiceLen, f \in {0, 255},
          md \in NoneOrZeros :
          Holding(<<b0>> \o Fill(n - 1, f), md)

\* the identifier bytes of the service-data families, with bit 7 clear and
\* set, and one model (Curtain) that decode_data does not decode; the other
\* bytes from values that set and clear each bit the decoder looks at
ServiceTags == {72, 200, 84, 212, 105, 233, 101, 229, 99}
ServiceByteAt == [i \in 0..MaxServiceLen |->
    CASE i = 0 -> ServiceTags
      [] i = 1 -> {0, 64, 128, 191}       \* bit 6, bit 7, all but bit 6
      [] i = 2 -> {50, 100, 228}          \* 0xE4 = 0x80 | 100
      [] i = 3 -> {0, 9, 10, 255}         \* low nibble 0, 9, 10, 15
      [] i = 4 -> {0, 23, 128, 151, 255}  \* 0x97 = 0x80 | 23
      [] i = 5 -> {42, 170}               \* 0xAA = 0x80 | 42
      [] OTHER -> {0}]
InitServiceFields ==
    \E n \in MinServiceLen..MaxServiceLen :
       \E sd \in Buffers(n, ServiceByteAt), md \in NoneOrZeros :
          Holding(sd, md)

\* the Plug identifier bytes, with a manufacturer data of every length
PlugTags == {103, 231, 106, 234}
ManufacturerByteAt == [i \in 0..MaxManufacturerLen |->
    CASE i = 7  -> {0, 128, 129}
      [] i = 8  -> {0, 128}
      [] i = 9  -> {0, 1, 255}
      [] i = 10 -> {0, 127, 128, 255}
      [] i = 11 -> {0, 9, 10, 255}
      [] OTHER  -> {0}]
InitPlugLengths ==
    \E t \in PlugTags, n \in MinServiceLen..MaxServiceLen :
       \/ Holding(<<t>> \o Fill(n - 1, 0), None)
       \/ \E k \in 0..MaxManufacturerLen :
             \/ \E m \in Buffers(k, ManufacturerByteAt) :
                   Holding(<<t>> \o Fill(n - 1, 0), Some(m))
             \/ Holding(<<t>> \o Fill(n - 1, 0), Some(Fill(k, 255)))

Init ==
    \/ InitTests
    \/ InitLeadingByte
    \/ InitServiceFields
    \/ InitPlugLengths

\* decode_model(service_data[0]), as the crate's documentation describes
CallDecodeModel ==
    /\ pc = "input"
    /\ Len(service_data) >= 1
    /\ model' = decode_model(service_data[1])
    /\ pc' = "classified"
    /\ UNCHANGED <<service_data, manufacturer_data, data, panicked, printed>>

\* decode_data(service_data, manufacturer_data)
CallDecodeData ==
    /\ pc = "input"
    /\ LET r == decode_data(service_data, manufacturer_data) IN
          /\ model' = r.model
          /\ data' = r.data
          /\ panicked' = r.panic
          /\ printed' = r.printed
    /\ pc' = "decoded"
    /\ UNCHANGED <<service_data, manufacturer_data>>

Next == CallDecodeModel \/ CallDecodeData

Spec == Init /\ [][Next]_vars

\* the caller holding a 3-byte Bot service data: every pair of bytes 1 and 2
InitBot ==
    \/ InitTests
    \/ InitServiceFields
    \/ \E b1 \in Byte, b2 \in Byte : Holding(<<72, b1, b2>>, None)
SpecBot == InitBot /\ [][Next]_vars

\* the caller holding a 6-byte Meter or MeterPlus service data: every pair of
\* bytes 3 and 4, every byte 2 and every byte 5
InitMeter ==
    \/ InitTests
    \/ InitServiceFields
    \/ \E b3 \in Byte, b4 \in Byte : Holding(<<84, 0, 100, b3, b4, 42>>, None)
    \/ \E t \in {212, 105, 233}, b \in Byte :
          \/ Holding(<<t, 255, b, 10, 151, 42>>, None)
          \/ Holding(<<t, 255, 100, 10, 151, b>>, None)
SpecMeter == InitMeter /\ [][Next]_vars

\* the caller holding a PlugMini service data and a 12-byte manufacturer data:
\* every pair of bytes 10 and 11, and every value of each single byte
PlugBase == <<105, 9, 1, 2, 3, 4, 5, 128, 6, 60, 1, 244>>
InitPlug ==
    \/ InitTests
    \/ InitPlugLengths
    \/ \E m10 \in Byte, m11 \in Byte :
          Holding(<<103, 0, 0>>,
                  Some(<<105, 9, 0, 0, 0, 0, 0, 128, 0, 60, m10, m11>>))
    \/ \E i \in 1..PlugManufacturerLen, b \in Byte :
          Holding(<<234, 0, 0, 0>>, Some([PlugBase EXCEPT ![i] = b]))
SpecPlug == InitPlug /\ [][Next]_vars

(***************************************************************************)
(* Properties.  They speak of bytes arithmetically: the low k bits of b    *)
(* are b % 2^k, and bit k of b is set when (b \div 2^k) is odd.            *)
(***************************************************************************)
LowBits(b, k) == b % (2 ^ k)
BitSet(b, k) == (b \div (2 ^ k)) % 2 = 1

Classified == pc = "classified"
Decoded == pc = "decoded"
NothingDecoded == model = None /\ data = None

\* the identifier byte of the advertisement held, its high bit cleared
Tag == LowBits(service_data[1], 7)
\* the discriminants of enum SwitchBotDeviceModel
KnownCodes == {Discriminant(v) : v \in Variants}
\* the masked bytes that decode_model classifies
ClassifiedCodes == {c \in 0..127 : decode_model(c).some}

\* the reading variant of each decodable model
FamilyOf ==
    [ Bot |-> "Bot", Meter |-> "Meter", MeterPlus |-> "Meter",
      Humidifier |-> "Humidifier", PlugMiniUS |-> "Plug",
      PlugMiniJP |-> "Plug" ]
Decodable == DOMAIN FamilyOf

\* C1: decode_data returns (None, None) or (Some(model), Some(reading)), never
\* one without the other; a returned reading comes with one of the six
\* decodable models and is of that model's family; a service data whose
\* identifier byte classifies as any other model yields (None, None).
C1_ReadingPairedWithItsFamily ==
    Decoded =>
        /\ model.some <=> data.some
        /\ data.some =>
              /\ model.val \in Decodable
              /\ data.val.variant = FamilyOf[model.val]
        /\ (/\ Len(service_data) >= 3
            /\ \E v \in Variants \ Decodable : Discriminant(v) = Tag)
           => NothingDecoded

C1_Witness ==
    /\ Decoded
    /\ model = Some("Humidifier")
    /\ data.some
    /\ data.val.variant = "Humidifier"

\* C2: decode_model(b) = decode_model(b & 0x7F) for every byte b, and flipping
\* bit 7 of service_data[0] does not change what decode_data returns.
C2_HighBitIgnored ==
    /\ Classified => model = decode_model(LowBits(service_data[1], 7))
    /\ (Decoded /\ Len(service_data) >= 1) =>
          LET flipped == [service_data EXCEPT ![1] = (@ + 128) % 256]
              r == decode_data(flipped, manufacturer_data)
          IN  /\ model = r.model
              /\ data = r.data
              /\ panicked = r.panic

C2_Witness ==
    /\ Classified
    /\ service_data[1] = 200
    /\ model = Some("Bot")

\* C3 as stated: decode_model(b) is Some(model) exactly when b & 0x7F is one
\* of the known model codes, all in [0x42, 0x75], the model's discriminant is
\* then b & 0x7F, and the codes that classify are exactly 21, one per variant.
C3_TwentyOneCodes ==
    Classified =>
        /\ model.some <=> Tag \in KnownCodes
        /\ model.some => Discriminant(model.val) = Tag
        /\ KnownCodes \subseteq 66..117
        /\ ClassifiedCodes = KnownCodes
        /\ Cardinality(ClassifiedCodes) = 21
        /\ Cardinality(Variants) = 21

\* C3 amended: the same, with 22 codes, one per variant of the enum.
C3_TwentyTwoCodes ==
    Classified =>
        /\ model.some <=> Tag \in KnownCodes
        /\ model.some => Discriminant(model.val) = Tag
        /\ KnownCodes \subseteq 66..117
        /\ ClassifiedCodes = KnownCodes
        /\ Cardinality(ClassifiedCodes) = 22
        /\ Cardinality(Variants) = 22

C3_Witness ==
    /\ Classified
    /\ Tag = 117
    /\ service_data[1] = 245
    /\ model = Some("ColorBulb")

\* C4: decode_data returns (None, None), without panicking, whenever the
\* service data has fewer than 3 bytes and whenever its identifier byte,
\* masked, is not a known model code, whatever the other bytes and the
\* manufacturer data; so for the zero buffers of the crate's test.
C4_ShortOrUnknownRejected ==
    (Decoded /\ (Len(service_data) < 3 \/ Tag \notin KnownCodes))
        => NothingDecoded /\ ~panicked

C4_Witness ==
    /\ Decoded
    /\ service_data = <<0, 0, 0>>
    /\ manufacturer_data = Some(<<0, 0, 0, 0, 0, 0, 0, 0, 0, 0, 0, 0>>)
    /\ NothingDecoded

C6_NeverPanics ==
    Decoded =>
        /\ ~panicked
        /\ ~data.some => NothingDecoded

C6_Witness ==
    /\ Decoded
    /\ manufacturer_data.some
    /\ Len(manufacturer_data.val) = 12
    /\ manufacturer_data.val[10] = 255
    /\ manufacturer_data.val[11] = 255
    /\ manufacturer_data.val[12] = 255
    /\ data.some
    /\ ~panicked

\* C7: the service data [0x69, 0x00, 0x64, 0x00, 0x80, 0x2A] with no
\* manufacturer data decodes to MeterPlus and
\* Meter{battery: 100, temperature: 23, humidity: 42}.
C7_MeterPlusTestDecodes ==
    (/\ Decoded
     /\ service_data = <<105, 0, 100, 0, 128, 42>>
     /\ manufacturer_data = None)
        => /\ model = Some("MeterPlus")
           /\ data = Some(MeterData(100, 23, 42))

C9_BotFields ==
    /\ (Decoded /\ Len(service_data) = 3 /\ Tag = 72) =>
          /\ model = Some("Bot")
          /\ data = Some(BotData(LowBits(service_data[3], 7),
                                 BitSet(service_data[2], 6)))
    /\ (Decoded /\ service_data = <<72, 64, 100>>) =>
          data = Some(BotData(100, TRUE))
    /\ (Decoded /\ service_data = <<72, 0, 50>>) =>
          data = Some(BotData(50, FALSE))

C9_Witness ==
    /\ Decoded
    /\ service_data = <<200, 191, 228>>
    /\ manufacturer_data.some
    /\ model = Some("Bot")
    /\ data = Some(BotData(100, FALSE))

\* C10: for a Plug decode with the 12-byte manufacturer data m, wifi_rssi is
\* -m[9], in -255..0; watts is (((m[10] & 0x7F) * 256) + m[11]) div 10, the
\* value divided never above 32767 and watts in 0..3276; overload is bit 7
\* of m[10]; state is m[7] = 0x80; no other byte of m matters.
C10_PlugFields ==
    (/\ Decoded
     /\ Len(service_data) >= 3
     /\ Tag \in {103, 106}
     /\ manufacturer_data.some
     /\ Len(manufacturer_data.val) = 12) =>
        LET m == manufacturer_data.val
            deciwatts == (LowBits(m[11], 7) * 256) + m[12]
        IN  /\ deciwatts <= 32767
            /\ data = Some(PlugData(-m[10], m[8] = 128, deciwatts \div 10,
                                    BitSet(m[11], 7)))
            /\ data.val.wifi_rssi \in -255..0
            /\ data.val.watts \in 0..3276

C10_Witness ==
    /\ Decoded
    /\ manufacturer_data.some
    /\ Len(manufacturer_data.val) = 12
    /\ manufacturer_data.val[11] = 255
    /\ manufacturer_data.val[12] = 255
    /\ manufacturer_data.val[8] = 128
    /\ data = Some(PlugData(-60, TRUE, 3276, TRUE))

====
